---- MODULE Spec2Model ----
(***************************************************************************)
(* Relay orchestration and quota reservation of one-api                    *)
(* (controller/relay-helper.go): relayHelper, the ten modality handlers,   *)
(* and the background refund / settlement goroutines, run by several       *)
(* concurrent requests against a shared token-quota ledger.                *)
(***************************************************************************)
EXTENDS Integers, Sequences, FiniteSets, TLC

(***************************************************************************)
(* Bounds of the model.                                                    *)
(***************************************************************************)
NReq == 2            \* concurrent requests
NTokens == 2         \* token ids of the ledger
MaxInput == 2        \* length of the required text field / message list
MaxUsage == 3        \* largest total the provider reports as usage
RichQuota == 6       \* starting balance of token 1
PoorQuota == 2       \* starting balance of the other tokens

Reqs == 1..NReq
Tokens == 1..NTokens

(***************************************************************************)
(* HTTP status classes used by common.ErrorWrapper.                        *)
(***************************************************************************)
StatusBadRequest == 400
StatusForbidden == 403
StatusInternalServerError == 500
StatusNotImplemented == 501
StatusBadGateway == 502

NoError == [code |-> "", status |-> 0]
ErrorWrapper(code, status) == [code |-> code, status |-> status]

(***************************************************************************)
(* Relay modes (package common) and the capability interfaces              *)
(* (providers/base) a provider handle may implement.                       *)
(***************************************************************************)
RelayModeChatCompletions == "ChatCompletions"
RelayModeCompletions == "Completions"
RelayModeEmbeddings == "Embeddings"
RelayModeModerations == "Moderations"
RelayModeAudioSpeech == "AudioSpeech"
RelayModeAudioTranscription == "AudioTranscription"
RelayModeAudioTranslation == "AudioTranslation"
RelayModeImagesGenerations == "ImagesGenerations"
RelayModeImagesEdits == "ImagesEdits"
RelayModeImagesVariations == "ImagesVariations"
RelayModeUnknown == "Unknown"

TextModes ==
    { RelayModeChatCompletions, RelayModeCompletions, RelayModeEmbeddings,
      RelayModeModerations, RelayModeAudioSpeech,
      RelayModeAudioTranscription, RelayModeAudioTranslation }
ImageModes ==
    { RelayModeImagesGenerations, RelayModeImagesEdits, RelayModeImagesVariations }
KnownModes == TextModes \cup ImageModes
AllModes == KnownModes \cup {RelayModeUnknown}

Interfaces ==
    { "ChatInterface", "CompletionInterface", "EmbeddingsInterface",
      "ModerationInterface", "SpeechInterface", "TranscriptionsInterface",
      "TranslationInterface", "ImageGenerationsInterface",
      "ImageEditsInterface", "ImageVariationsInterface" }

(***************************************************************************)
(* The provider registry: providers.GetProvider(channelType, c).  A handle *)
(* answers SupportAPI(relayMode) and implements a set of interfaces; the   *)
(* two are independent.  Channel "none" has no provider.                   *)
(***************************************************************************)
ChannelTypes == { "none", "full", "hollow", "unsupported", "noVariations", "noEdits" }

NilProvider == [isNil |-> TRUE, supportAPI |-> {}, interfaces |-> {}]

GetProvider(channelType) ==
    CASE channelType = "full" ->
            [isNil |-> FALSE, supportAPI |-> AllModes, interfaces |-> Interfaces]
      [] channelType = "hollow" ->
            [isNil |-> FALSE, supportAPI |-> AllModes, interfaces |-> {}]
      [] channelType = "unsupported" ->
            [isNil |-> FALSE, supportAPI |-> {}, interfaces |-> Interfaces]
      [] channelType = "noVariations" ->
            [isNil |-> FALSE, supportAPI |-> KnownModes,
             interfaces |-> Interfaces \ {"ImageVariationsInterface"}]
      [] channelType = "noEdits" ->
            [isNil |-> FALSE, supportAPI |-> KnownModes,
             interfaces |-> Interfaces \ {"ImageEditsInterface"}]
      [] OTHER -> NilProvider

SupportAPI(provider, relayMode) == relayMode \in provider.supportAPI

(***************************************************************************)
(* Model mapping.  The raw context string is the empty string, text that   *)
(* is not a JSON object, or a JSON object given by its key/value pairs in  *)
(* textual order.                                                          *)
(***************************************************************************)
ModelMappings == { "", "{", "{gpt-4:gpt-4-upstream}", "{gpt-4:}", "{defaults}" }

MappingPairs(raw) ==
    CASE raw = "{gpt-4:gpt-4-upstream}" -> << <<"gpt-4", "gpt-4-upstream">> >>
      [] raw = "{gpt-4:}" -> << <<"gpt-4", "">> >>
      [] raw = "{defaults}" ->
            << <<"dall-e-2", "gpt-4">>, <<"text-moderation-latest", "gpt-4">>,
               <<"dall-e-2", "dall-e-3">> >>
      [] OTHER -> << >>

\* parseModelMapping: empty string -> nil map, no error; malformed -> error;
\* a JSON object -> its entries, a repeated key keeping its last value.
parseModelMapping(raw) ==
    IF raw = "" THEN [err |-> FALSE, isNil |-> TRUE, entries |-> {}]
    ELSE IF raw = "{" THEN [err |-> TRUE, isNil |-> TRUE, entries |-> {}]
    ELSE LET ps == MappingPairs(raw)
         IN [err |-> FALSE, isNil |-> FALSE,
             entries |-> { ps[i] : i \in { j \in DOMAIN ps :
                              \A k \in DOMAIN ps : k > j => ps[k][1] # ps[j][1] } }]

\* Go's modelMap[key]: the zero value "" for a missing key or a nil map.
MapIndex(modelMap, key) ==
    IF \E e \in modelMap.entries : e[1] = key
    THEN (CHOOSE e \in modelMap.entries : e[1] = key)[2]
    ELSE ""

\* The mapping applied without setting isModelMapped.
ApplyModelMapping_noFlag(modelMap, model) ==
    IF ~modelMap.isNil /\ MapIndex(modelMap, model) # ""
    THEN [Model |-> MapIndex(modelMap, model), isModelMapped |-> FALSE]
    ELSE [Model |-> model, isModelMapped |-> FALSE]

\* if modelMap != nil && modelMap[req.Model] != "" { req.Model = ...; isModelMapped = true }
ApplyModelMapping(modelMap, model) ==
    IF ~modelMap.isNil /\ MapIndex(modelMap, model) # ""
    THEN [Model |-> MapIndex(modelMap, model), isModelMapped |-> TRUE]
    ELSE [Model |-> model, isModelMapped |-> FALSE]

(***************************************************************************)
(* Request bodies.  A body either fails to decode into the modality's      *)
(* request type or decodes to its fields: Model, the required field (n is  *)
(* the number of messages, the length of Prompt or Input, or 1 for a       *)
(* present File), and Size and Quality for the image requests.             *)
(***************************************************************************)
RequestModels == { "", "gpt-4", "unlisted" }
Sizes == { "", "bogus" }
Qualities == { "", "hd" }
Groups == { "default", "vip" }

Body(decodable, model, n, size, quality) ==
    [decodable |-> decodable, Model |-> model, n |-> n, Size |-> size,
     Quality |-> quality]

UndecodableBody == Body(FALSE, "", 0, "", "")

BodiesOf(relayMode) ==
    {UndecodableBody} \cup
    IF relayMode \in TextModes
    THEN { Body(TRUE, m, n, "", "") : m \in RequestModels, n \in 0..MaxInput }
    ELSE IF relayMode \in ImageModes
    THEN { Body(TRUE, m, 0, s, q) : m \in RequestModels, s \in Sizes, q \in Qualities }
    ELSE {}

(***************************************************************************)
(* Per-modality parts of the handlers.                                     *)
(***************************************************************************)
\* handleImageEdits asserting ImageEditsInterface for both image types.
AssertedInterface_editsForBoth(relayMode) ==
    CASE relayMode = RelayModeChatCompletions -> "ChatInterface"
      [] relayMode = RelayModeCompletions -> "CompletionInterface"
      [] relayMode = RelayModeEmbeddings -> "EmbeddingsInterface"
      [] relayMode = RelayModeModerations -> "ModerationInterface"
      [] relayMode = RelayModeAudioSpeech -> "SpeechInterface"
      [] relayMode = RelayModeAudioTranscription -> "TranscriptionsInterface"
      [] relayMode = RelayModeAudioTranslation -> "TranslationInterface"
      [] relayMode = RelayModeImagesGenerations -> "ImageGenerationsInterface"
      [] OTHER -> "ImageEditsInterface"

\* The interface each handler asserts on the provider: provider.(X).
AssertedInterface(relayMode) ==
    CASE relayMode = RelayModeChatCompletions -> "ChatInterface"
      [] relayMode = RelayModeCompletions -> "CompletionInterface"
      [] relayMode = RelayModeEmbeddings -> "EmbeddingsInterface"
      [] relayMode = RelayModeModerations -> "ModerationInterface"
      [] relayMode = RelayModeAudioSpeech -> "SpeechInterface"
      [] relayMode = RelayModeAudioTranscription -> "TranscriptionsInterface"
      [] relayMode = RelayModeAudioTranslation -> "TranslationInterface"
      [] relayMode = RelayModeImagesGenerations -> "ImageGenerationsInterface"
      [] relayMode = RelayModeImagesEdits -> "ImageEditsInterface"
      [] OTHER -> "ImageVariationsInterface"

\* The provider method each handler ends with.
ProviderAction(relayMode) ==
    CASE relayMode = RelayModeChatCompletions -> "ChatAction"
      [] relayMode = RelayModeCompletions -> "CompleteAction"
      [] relayMode = RelayModeEmbeddings -> "EmbeddingsAction"
      [] relayMode = RelayModeModerations -> "ModerationAction"
      [] relayMode = RelayModeAudioSpeech -> "SpeechAction"
      [] relayMode = RelayModeAudioTranscription -> "TranscriptionsAction"
      [] relayMode = RelayModeAudioTranslation -> "TranslationAction"
      [] relayMode = RelayModeImagesGenerations -> "ImageGenerationsAction"
      [] relayMode = RelayModeImagesEdits -> "ImageEditsAction"
      [] OTHER -> "ImageVariationsAction"

\* The audio handlers without their File check.
RequiredFieldMissing_noFileCheck(relayMode, body) ==
    /\ relayMode \in TextModes \ {RelayModeAudioTranscription, RelayModeAudioTranslation}
    /\ body.n = 0

\* Messages == nil || len(Messages) == 0, Prompt == "", Input == "", File == nil;
\* the image handlers check no field.
RequiredFieldMissing(relayMode, body) ==
    relayMode \in TextModes /\ body.n = 0

RequiredFieldName(relayMode) ==
    CASE relayMode = RelayModeChatCompletions -> "messages"
      [] relayMode = RelayModeCompletions -> "prompt"
      [] relayMode \in {RelayModeAudioTranscription, RelayModeAudioTranslation} -> "file"
      [] OTHER -> "input"

\* Defaults applied before model mapping.
ApplyDefaults(relayMode, body) ==
    CASE relayMode = RelayModeModerations ->
            [body EXCEPT !.Model = IF @ = "" THEN "text-moderation-latest" ELSE @]
      [] relayMode = RelayModeImagesGenerations ->
            [body EXCEPT !.Model = IF @ = "" THEN "dall-e-2" ELSE @,
                         !.Size = IF @ = "" THEN "1024x1024" ELSE @,
                         !.Quality = IF @ = "" THEN "standard" ELSE @]
      [] relayMode \in {RelayModeImagesEdits, RelayModeImagesVariations} ->
            [body EXCEPT !.Model = IF @ = "" THEN "dall-e-2" ELSE @,
                         !.Size = IF @ = "" THEN "1024x1024" ELSE @]
      [] OTHER -> body

\* common.CountTokenImage: a cost table keyed by size and quality; an
\* unknown size is an error.
CountTokenImage(request) ==
    IF request.Size # "1024x1024" THEN [err |-> TRUE, tokens |-> 0]
    ELSE [err |-> FALSE, tokens |-> IF request.Quality = "hd" THEN 2 ELSE 1]

\* common.CountTokenMessages / common.CountTokenInput: one token per unit.
CountTokenText(request) == request.n

\* The pre-flight estimate of each handler.
CountTokens(relayMode, request) ==
    CASE relayMode \in {RelayModeAudioTranscription, RelayModeAudioTranslation} ->
            [err |-> FALSE, tokens |-> 0]
      [] relayMode = RelayModeAudioSpeech ->
            [err |-> FALSE, tokens |-> request.n]
      [] relayMode \in ImageModes -> CountTokenImage(request)
      [] OTHER -> [err |-> FALSE, tokens |-> CountTokenText(request)]

(***************************************************************************)
(* Pricing: a deterministic function of model, group and token count.      *)
(* A model without a price makes the lookup fail.                          *)
(***************************************************************************)
PricedModels == { "gpt-4", "gpt-4-upstream", "dall-e-2", "dall-e-3", "text-moderation-latest" }
ModelRatio(model) == IF model \in {"gpt-4", "dall-e-3"} THEN 2 ELSE 1
GroupRatio(group) == IF group = "vip" THEN 2 ELSE 1
Price(model, group, tokens) == ModelRatio(model) * GroupRatio(group) * tokens

(***************************************************************************)
(* A modality handler up to the call of preQuotaConsumption.  stage is the *)
(* last step it reached: "assert", "decode", "validate", "estimate" or     *)
(* "populate" (QuotaInfo filled, reserve comes next).                      *)
(***************************************************************************)
HandlerFail(stage, code, status) ==
    [stage |-> stage, err |-> ErrorWrapper(code, status), request |-> UndecodableBody,
     isModelMapped |-> FALSE, promptTokens |-> 0]

\* A handler that decodes and validates the body before it asserts the
\* provider's interface.
handle_decodesFirst(relayMode, provider, modelMap, body) ==
    IF ~body.decodable
    THEN HandlerFail("decode", "bind_request_body_failed", StatusBadRequest)
    ELSE IF RequiredFieldMissing(relayMode, body)
    THEN HandlerFail("validate", "required_field_missing", StatusBadRequest)
    ELSE IF AssertedInterface(relayMode) \notin provider.interfaces
    THEN HandlerFail("assert", "channel_not_implemented", StatusNotImplemented)
    ELSE LET d == ApplyDefaults(relayMode, body)
             m == ApplyModelMapping(modelMap, d.Model)
             request == [d EXCEPT !.Model = m.Model]
             est == CountTokens(relayMode, request)
         IN IF est.err
            THEN HandlerFail("estimate", "count_token_image_failed",
                             StatusInternalServerError)
            ELSE [stage |-> "populate", err |-> NoError, request |-> request,
                  isModelMapped |-> m.isModelMapped, promptTokens |-> est.tokens]

\* A handler that looks the model up in the mapping before it fills in the
\* defaults.
handle_mapsFirst(relayMode, provider, modelMap, body) ==
    IF AssertedInterface(relayMode) \notin provider.interfaces
    THEN HandlerFail("assert", "channel_not_implemented", StatusNotImplemented)
    ELSE IF ~body.decodable
    THEN HandlerFail("decode", "bind_request_body_failed", StatusBadRequest)
    ELSE IF RequiredFieldMissing(relayMode, body)
    THEN HandlerFail("validate", "required_field_missing", StatusBadRequest)
    ELSE LET m == ApplyModelMapping(modelMap, body.Model)
             request == ApplyDefaults(relayMode, [body EXCEPT !.Model = m.Model])
             est == CountTokens(relayMode, request)
         IN IF est.err
            THEN HandlerFail("estimate", "count_token_image_failed",
                             StatusInternalServerError)
            ELSE [stage |-> "populate", err |-> NoError, request |-> request,
                  isModelMapped |-> m.isModelMapped, promptTokens |-> est.tokens]

\* A handler that goes on with an estimate of 0 when the estimator fails.
handle_ignoresEstimateError(relayMode, provider, modelMap, body) ==
    IF AssertedInterface(relayMode) \notin provider.interfaces
    THEN HandlerFail("assert", "channel_not_implemented", StatusNotImplemented)
    ELSE IF ~body.decodable
    THEN HandlerFail("decode", "bind_request_body_failed", StatusBadRequest)
    ELSE IF RequiredFieldMissing(relayMode, body)
    THEN HandlerFail("validate", "required_field_missing", StatusBadRequest)
    ELSE LET d == ApplyDefaults(relayMode, body)
             m == ApplyModelMapping(modelMap, d.Model)
             request == [d EXCEPT !.Model = m.Model]
             est == CountTokens(relayMode, request)
         IN [stage |-> "populate", err |-> NoError, request |-> request,
             isModelMapped |-> m.isModelMapped, promptTokens |-> est.tokens]

handle(relayMode, provider, modelMap, body) ==
    IF AssertedInterface(relayMode) \notin provider.interfaces
    THEN HandlerFail("assert", "channel_not_implemented", StatusNotImplemented)
    ELSE IF ~body.decodable
    THEN HandlerFail("decode", "bind_request_body_failed", StatusBadRequest)
    ELSE IF RequiredFieldMissing(relayMode, body)
    THEN HandlerFail("validate", "required_field_missing", StatusBadRequest)
    ELSE LET d == ApplyDefaults(relayMode, body)
             m == ApplyModelMapping(modelMap, d.Model)
             request == [d EXCEPT !.Model = m.Model]
             est == CountTokens(relayMode, request)
         IN IF est.err
            THEN HandlerFail("estimate", "count_token_image_failed",
                             StatusInternalServerError)
            ELSE [stage |-> "populate", err |-> NoError, request |-> request,
                  isModelMapped |-> m.isModelMapped, promptTokens |-> est.tokens]

(***************************************************************************)
(* State.                                                                  *)
(***************************************************************************)
VARIABLES
    ctx,         \* per request: the values the middleware put in gin.Context
    pc,          \* per request: where its relayHelper call stands
    quotaInfo,   \* per request: the QuotaInfo record
    frame,       \* per request: the handler's locals (request, isModelMapped, promptTokens)
    handlerRet,  \* per request: (usage, openAIErrorWithStatusCode) of the handler
    result,      \* per request: what relayHelper returned to its caller
    bg,          \* per request: the refund and the settlement goroutine, each
                 \*   "none", "launched" or "done"
    tokenQuota,  \* the ledger: remaining quota of each token
    calls,       \* per request: the provider actions invoked, in order
    events,      \* per request: its steps and ledger operations, in order
    canceled     \* per request: "no", or when c.Request.Context() was canceled:
                 \*   "before" or "after" the provider call completed

vars == << ctx, pc, quotaInfo, frame, handlerRet, result, bg, tokenQuota, calls,
           events, canceled >>

NilUsage == [isNil |-> TRUE, TotalTokens |-> 0]
Usage(total) == [isNil |-> FALSE, TotalTokens |-> total]

Context(relayMode, channel, token, group, mapping, body) ==
    [relayMode |-> relayMode, channel |-> channel, token_id |-> token,
     group |-> group, model_mapping |-> mapping, body |-> body]

\* Every context of the model.
Contexts ==
    { Context(m, ch, t, g, mm, b) :
        m \in AllModes, ch \in ChannelTypes, t \in Tokens, g \in Groups,
        mm \in ModelMappings, b \in UNION { BodiesOf(x) : x \in AllModes } }

\* The contexts of the single-request specification: each mode with the
\* bodies of its request type.
DispatchContexts == { c \in Contexts : c.body \in BodiesOf(c.relayMode) }

\* The contexts of the concurrent specification: requests to a full
\* provider that reach every outcome of the quota protocol.  On token 1 a
\* chat request reserves and is then settled or refunded, is refused for a
\* model without a price, or fails validation; on the other tokens a chat
\* request competes for a balance that covers one reservation, and a
\* transcription request reserves 0.
QuotaContext(relayMode, token, model, n) ==
    Context(relayMode, "full", token, "default", "{gpt-4:gpt-4-upstream}",
            Body(TRUE, model, n, "", ""))

QuotaContexts ==
    { QuotaContext(RelayModeChatCompletions, 1, "gpt-4", MaxInput),
      QuotaContext(RelayModeChatCompletions, 1, "unlisted", MaxInput),
      QuotaContext(RelayModeChatCompletions, 1, "gpt-4", 0) }
    \cup { QuotaContext(RelayModeChatCompletions, t, "gpt-4", MaxInput) :
              t \in Tokens \ {1} }
    \cup { QuotaContext(RelayModeAudioTranscription, t, "gpt-4", 1) :
              t \in Tokens \ {1} }

InitialQuota == [t \in Tokens |-> IF t = 1 THEN RichQuota ELSE PoorQuota]

\* A QuotaInfo constructed with a reservation nobody made.
NewQuotaInfo_prefilled(tokenId) ==
    [modelName |-> "", promptTokens |-> 0, tokenId |-> tokenId, group |-> "",
     preConsumedQuota |-> 1]

\* quotaInfo := &QuotaInfo{modelName: "", promptTokens: 0, ..., tokenId: tokenId}
NewQuotaInfo(tokenId) ==
    [modelName |-> "", promptTokens |-> 0, tokenId |-> tokenId, group |-> "",
     preConsumedQuota |-> 0]

Event(ev, token, amount) == [ev |-> ev, token |-> token, amount |-> amount]
Step(ev) == Event(ev, 0, 0)

InitRest ==
    /\ quotaInfo = [r \in Reqs |-> NewQuotaInfo(0)]
    /\ frame = [r \in Reqs |-> HandlerFail("", "", 0)]
    /\ handlerRet = [r \in Reqs |-> [usage |-> NilUsage, err |-> NoError]]
    /\ result = [r \in Reqs |-> [returned |-> FALSE, err |-> NoError]]
    /\ bg = [r \in Reqs |-> [refund |-> "none", settle |-> "none"]]
    /\ tokenQuota = InitialQuota
    /\ calls = [r \in Reqs |-> << >>]
    /\ events = [r \in Reqs |-> << >>]
    /\ canceled = [r \in Reqs |-> "no"]

\* Concurrent requests over the quota contexts.
Init ==
    /\ ctx \in [Reqs -> QuotaContexts]
    /\ pc = [r \in Reqs |-> "start"]
    /\ InitRest

\* One request over every context; the other requests never arrive.
AbsentContext ==
    Context(RelayModeUnknown, "none", 1, "default", "", UndecodableBody)

InitDispatch ==
    /\ ctx \in { [r \in Reqs |-> IF r = 1 THEN c ELSE AbsentContext] :
                   c \in DispatchContexts }
    /\ pc = [r \in Reqs |-> IF r = 1 THEN "start" ELSE "absent"]
    /\ InitRest

(***************************************************************************)
(* The ledger and the Quota Reservation Engine.                            *)
(***************************************************************************)
\* model.PostConsumeTokenQuota(tokenId, quota): the token's remaining quota
\* decreases by quota (increases for a negative quota), atomically.
PostConsumeTokenQuota(ledger, tokenId, quota) ==
    [ledger EXCEPT ![tokenId] = @ - quota]

\* quotaInfo.initQuotaInfo(group): the pricing tier of the caller.
initQuotaInfo(q, group) == [q EXCEPT !.group = group]

\* quotaInfo.preQuotaConsumption(): reserve.  The amount is priced from
\* modelName, promptTokens and group; a failed price lookup or a balance
\* below the amount debits nothing and leaves preConsumedQuota at 0.
preQuotaConsumption(q, ledger) ==
    IF q.modelName \notin PricedModels
    THEN [err |-> ErrorWrapper("get_model_ratio_failed", StatusForbidden),
          quotaInfo |-> q, ledger |-> ledger]
    ELSE LET amount == Price(q.modelName, q.group, q.promptTokens)
         IN IF ledger[q.tokenId] < amount
            THEN [err |-> ErrorWrapper("pre_consume_token_quota_failed", StatusForbidden),
                  quotaInfo |-> q, ledger |-> ledger]
            ELSE [err |-> NoError,
                  quotaInfo |-> [q EXCEPT !.preConsumedQuota = amount],
                  ledger |-> PostConsumeTokenQuota(ledger, q.tokenId, amount)]

\* The true cost reconcile charges: priced from the reported usage, or from
\* promptTokens when the provider reported none.
TrueCost(q, usage) ==
    Price(q.modelName, q.group,
          IF usage.isNil THEN q.promptTokens ELSE usage.TotalTokens)

\* quotaInfo.completedQuotaConsumption(usage, tokenName, ctx): reconcile.
\* Applies the delta between the true cost and the reservation and zeroes
\* the reservation.
completedQuotaConsumption(q, usage, ledger) ==
    LET quotaDelta == TrueCost(q, usage) - q.preConsumedQuota
    IN [quotaDelta |-> quotaDelta,
        quotaInfo |-> [q EXCEPT !.preConsumedQuota = 0],
        ledger |-> PostConsumeTokenQuota(ledger, q.tokenId, quotaDelta)]

(***************************************************************************)
(* Actions.                                                                *)
(***************************************************************************)
Returned(err) == [returned |-> TRUE, err |-> err]

\* relayHelper, an error return before any handler runs.
EarlyReturn(r, err) ==
    /\ pc' = [pc EXCEPT ![r] = "done"]
    /\ result' = [result EXCEPT ![r] = Returned(err)]
    /\ UNCHANGED << quotaInfo, frame, handlerRet, events >>

\* A switch whose Completions case calls the chat handler.
SelectHandler_chatForCompletions(relayMode) ==
    CASE relayMode \in {RelayModeChatCompletions, RelayModeCompletions}
                                                  -> "handleChatCompletions"
      [] relayMode = RelayModeEmbeddings          -> "handleEmbeddings"
      [] relayMode = RelayModeModerations         -> "handleModerations"
      [] relayMode = RelayModeAudioSpeech         -> "handleSpeech"
      [] relayMode = RelayModeAudioTranscription  -> "handleTranscriptions"
      [] relayMode = RelayModeAudioTranslation    -> "handleTranslations"
      [] relayMode = RelayModeImagesGenerations   -> "handleImageGenerations"
      [] relayMode = RelayModeImagesEdits         -> "handleImageEdits"
      [] relayMode = RelayModeImagesVariations    -> "handleImageEdits"
      [] OTHER                                    -> ""

\* switch relayMode { case ...: handleX(...) ... default: return ... }: the
\* handler the switch calls, "" in the default case.
SelectHandler(relayMode) ==
    CASE relayMode = RelayModeChatCompletions     -> "handleChatCompletions"
      [] relayMode = RelayModeCompletions         -> "handleCompletions"
      [] relayMode = RelayModeEmbeddings          -> "handleEmbeddings"
      [] relayMode = RelayModeModerations         -> "handleModerations"
      [] relayMode = RelayModeAudioSpeech         -> "handleSpeech"
      [] relayMode = RelayModeAudioTranscription  -> "handleTranscriptions"
      [] relayMode = RelayModeAudioTranslation    -> "handleTranslations"
      [] relayMode = RelayModeImagesGenerations   -> "handleImageGenerations"
      [] relayMode = RelayModeImagesEdits         -> "handleImageEdits"
      [] relayMode = RelayModeImagesVariations    -> "handleImageEdits"
      [] OTHER                                    -> ""

\* The steps a handler took up to the stage it reached, its entry first.
HandlerSteps(relayMode, stage) ==
    << Step("handler"), Step(SelectHandler(relayMode)) >> \o
    (IF stage \in {"estimate", "populate"} THEN << Step("estimate") >> ELSE << >>) \o
    (IF stage = "populate" THEN << Step("populate") >> ELSE << >>)

\* relayHelper from its entry through the selected handler up to its call
\* of preQuotaConsumption.
RelayDispatch(r) ==
    /\ pc[r] = "start"
    /\ LET c == ctx[r]
           provider == GetProvider(c.channel)
           parsed == parseModelMapping(c.model_mapping)
           h == handle(c.relayMode, provider, parsed, c.body)
       IN IF provider.isNil
          THEN EarlyReturn(r, ErrorWrapper("channel_not_found", StatusNotImplemented))
          ELSE IF ~SupportAPI(provider, c.relayMode)
          THEN EarlyReturn(r, ErrorWrapper("channel_not_support_api", StatusNotImplemented))
          ELSE IF parsed.err
          THEN EarlyReturn(r, ErrorWrapper("unmarshal_model_mapping_failed",
                                           StatusInternalServerError))
          ELSE IF SelectHandler(c.relayMode) = ""
          THEN /\ EarlyReturn(r, ErrorWrapper("invalid_relay_mode", StatusBadRequest))
          ELSE /\ frame' = [frame EXCEPT ![r] = h]
               /\ events' = [events EXCEPT ![r] = @ \o HandlerSteps(c.relayMode, h.stage)]
               /\ result' = result
               /\ IF h.stage = "populate"
                  THEN /\ quotaInfo' = [quotaInfo EXCEPT ![r] =
                              initQuotaInfo([NewQuotaInfo(c.token_id) EXCEPT
                                                !.modelName = h.request.Model,
                                                !.promptTokens = h.promptTokens],
                                            c.group)]
                       /\ handlerRet' = handlerRet
                       /\ pc' = [pc EXCEPT ![r] = "reserve"]
                  ELSE /\ quotaInfo' = [quotaInfo EXCEPT ![r] = NewQuotaInfo(c.token_id)]
                       /\ handlerRet' = [handlerRet EXCEPT ![r] =
                              [usage |-> NilUsage, err |-> h.err]]
                       /\ pc' = [pc EXCEPT ![r] = "returned"]
    /\ UNCHANGED << ctx, bg, tokenQuota, calls, canceled >>

\* quota_err := quotaInfo.preQuotaConsumption(); if quota_err != nil { return nil, quota_err }
Reserve(r) ==
    /\ pc[r] = "reserve"
    /\ LET res == preQuotaConsumption(quotaInfo[r], tokenQuota)
       IN /\ quotaInfo' = [quotaInfo EXCEPT ![r] = res.quotaInfo]
          /\ tokenQuota' = res.ledger
          /\ IF res.err # NoError
             THEN /\ handlerRet' = [handlerRet EXCEPT ![r] =
                         [usage |-> NilUsage, err |-> res.err]]
                  /\ events' = [events EXCEPT ![r] = Append(@, Step("reserve_failed"))]
                  /\ pc' = [pc EXCEPT ![r] = "returned"]
             ELSE /\ handlerRet' = handlerRet
                  /\ events' = [events EXCEPT ![r] = Append(@,
                         Event("reserve", quotaInfo[r].tokenId,
                               res.quotaInfo.preConsumedQuota))]
                  /\ pc' = [pc EXCEPT ![r] = "provider"]
    /\ UNCHANGED << ctx, frame, result, bg, calls, canceled >>

\* A handler that calls the provider action without reserving first.
InvokeProvider_unreserved(r) ==
    /\ pc[r] = "reserve"
    /\ calls' = [calls EXCEPT ![r] = Append(@,
            [action |-> ProviderAction(ctx[r].relayMode),
             request |-> frame[r].request,
             isModelMapped |-> frame[r].isModelMapped,
             promptTokens |-> frame[r].promptTokens,
             returned |-> FALSE,
             ret |-> [usage |-> NilUsage, err |-> NoError]])]
    /\ events' = [events EXCEPT ![r] = Append(@, Step("provider_call"))]
    /\ pc' = [pc EXCEPT ![r] = "waiting"]
    /\ UNCHANGED << ctx, quotaInfo, frame, handlerRet, result, bg, tokenQuota, canceled >>

\* return xProvider.XAction(&request, isModelMapped, promptTokens): the call.
InvokeProvider(r) ==
    /\ pc[r] = "provider"
    /\ calls' = [calls EXCEPT ![r] = Append(@,
            [action |-> ProviderAction(ctx[r].relayMode),
             request |-> frame[r].request,
             isModelMapped |-> frame[r].isModelMapped,
             promptTokens |-> frame[r].promptTokens,
             returned |-> FALSE,
             ret |-> [usage |-> NilUsage, err |-> NoError]])]
    /\ events' = [events EXCEPT ![r] = Append(@, Step("provider_call"))]
    /\ pc' = [pc EXCEPT ![r] = "waiting"]
    /\ UNCHANGED << ctx, quotaInfo, frame, handlerRet, result, bg, tokenQuota, canceled >>

\* What a provider action may return: an upstream error, or a usage (or none).
ProviderOutcomes ==
    { [usage |-> NilUsage, err |-> ErrorWrapper("upstream_error", StatusBadGateway)] }
    \cup { [usage |-> u, err |-> NoError] :
              u \in {NilUsage} \cup { Usage(t) : t \in 0..MaxUsage } }

\* A handler that keeps the provider's error but drops its usage.
ProviderReturn_dropsUsage(r) ==
    /\ pc[r] = "waiting"
    /\ \E out \in ProviderOutcomes :
          /\ calls' = [calls EXCEPT ![r][Len(calls[r])] =
                          [@ EXCEPT !.returned = TRUE, !.ret = out]]
          /\ handlerRet' = [handlerRet EXCEPT ![r] = [usage |-> NilUsage, err |-> out.err]]
    /\ events' = [events EXCEPT ![r] = Append(@, Step("provider_return"))]
    /\ pc' = [pc EXCEPT ![r] = "returned"]
    /\ UNCHANGED << ctx, quotaInfo, frame, result, bg, tokenQuota, canceled >>

\* The provider action returns and the handler returns its result untouched.
ProviderReturn(r) ==
    /\ pc[r] = "waiting"
    /\ \E out \in ProviderOutcomes :
          /\ calls' = [calls EXCEPT ![r][Len(calls[r])] =
                          [@ EXCEPT !.returned = TRUE, !.ret = out]]
          /\ handlerRet' = [handlerRet EXCEPT ![r] = out]
    /\ events' = [events EXCEPT ![r] = Append(@, Step("provider_return"))]
    /\ pc' = [pc EXCEPT ![r] = "returned"]
    /\ UNCHANGED << ctx, quotaInfo, frame, result, bg, tokenQuota, canceled >>

\* The refund condition inverted.
LaunchesRefund_inverted(q) == q.preConsumedQuota = 0

\* The refund launched on every handler error.
LaunchesRefund_always(q) == TRUE

\* if quotaInfo.preConsumedQuota != 0 { go func ... }: the refund is launched.
LaunchesRefund(q) == q.preConsumedQuota # 0

\* relayHelper without the return that ends its error branch: it falls
\* through to the settlement.
RelayReturn_fallsThrough(r) ==
    /\ pc[r] = "returned"
    /\ IF handlerRet[r].err # NoError
       THEN /\ result' = [result EXCEPT ![r] = Returned(handlerRet[r].err)]
            /\ bg' = [bg EXCEPT ![r].refund =
                         IF LaunchesRefund(quotaInfo[r]) THEN "launched" ELSE @,
                                ![r].settle = "launched"]
            /\ events' = [events EXCEPT ![r] = @ \o
                   (IF LaunchesRefund(quotaInfo[r])
                    THEN << Step("launch_refund") >> ELSE << >>)
                   \o << Step("launch_settle") >>]
       ELSE /\ result' = [result EXCEPT ![r] = Returned(NoError)]
            /\ bg' = [bg EXCEPT ![r].settle = "launched"]
            /\ events' = [events EXCEPT ![r] = Append(@, Step("launch_settle"))]
    /\ pc' = [pc EXCEPT ![r] = "done"]
    /\ UNCHANGED << ctx, quotaInfo, frame, handlerRet, tokenQuota, calls, canceled >>

\* A relayHelper that settles only the requests that hold a reservation.
RelayReturn_skipsUnreserved(r) ==
    /\ pc[r] = "returned"
    /\ IF handlerRet[r].err # NoError
       THEN /\ result' = [result EXCEPT ![r] = Returned(handlerRet[r].err)]
            /\ IF LaunchesRefund(quotaInfo[r])
               THEN /\ bg' = [bg EXCEPT ![r].refund = "launched"]
                    /\ events' = [events EXCEPT ![r] = Append(@, Step("launch_refund"))]
               ELSE UNCHANGED << bg, events >>
       ELSE /\ result' = [result EXCEPT ![r] = Returned(NoError)]
            /\ IF quotaInfo[r].preConsumedQuota # 0
               THEN /\ bg' = [bg EXCEPT ![r].settle = "launched"]
                    /\ events' = [events EXCEPT ![r] = Append(@, Step("launch_settle"))]
               ELSE UNCHANGED << bg, events >>
    /\ pc' = [pc EXCEPT ![r] = "done"]
    /\ UNCHANGED << ctx, quotaInfo, frame, handlerRet, tokenQuota, calls, canceled >>

\* relayHelper after the handler returned: launch the refund or the
\* settlement goroutine and return to the caller.
RelayReturn(r) ==
    /\ pc[r] = "returned"
    /\ IF handlerRet[r].err # NoError
       THEN /\ result' = [result EXCEPT ![r] = Returned(handlerRet[r].err)]
            /\ IF LaunchesRefund(quotaInfo[r])
               THEN /\ bg' = [bg EXCEPT ![r].refund = "launched"]
                    /\ events' = [events EXCEPT ![r] = Append(@, Step("launch_refund"))]
               ELSE UNCHANGED << bg, events >>
       ELSE /\ result' = [result EXCEPT ![r] = Returned(NoError)]
            /\ bg' = [bg EXCEPT ![r].settle = "launched"]
            /\ events' = [events EXCEPT ![r] = Append(@, Step("launch_settle"))]
    /\ pc' = [pc EXCEPT ![r] = "done"]
    /\ UNCHANGED << ctx, quotaInfo, frame, handlerRet, tokenQuota, calls, canceled >>

\* A refund that passes the reserved amount with the wrong sign.
RefundTask_debits(r) ==
    /\ bg[r].refund = "launched"
    /\ tokenQuota' = PostConsumeTokenQuota(tokenQuota, ctx[r].token_id,
                                           quotaInfo[r].preConsumedQuota)
    /\ events' = [events EXCEPT ![r] = Append(@,
            Event("refund", ctx[r].token_id, quotaInfo[r].preConsumedQuota))]
    /\ bg' = [bg EXCEPT ![r].refund = "done"]
    /\ UNCHANGED << ctx, pc, quotaInfo, frame, handlerRet, result, calls, canceled >>

\* A refund goroutine that gives up when the context it was handed is canceled.
RefundTask_honoursCancel(r) ==
    /\ bg[r].refund = "launched"
    /\ IF canceled[r] # "no"
       THEN UNCHANGED << tokenQuota, events >>
       ELSE /\ tokenQuota' = PostConsumeTokenQuota(tokenQuota, ctx[r].token_id,
                                                   -quotaInfo[r].preConsumedQuota)
            /\ events' = [events EXCEPT ![r] = Append(@,
                    Event("refund", ctx[r].token_id, -quotaInfo[r].preConsumedQuota))]
    /\ bg' = [bg EXCEPT ![r].refund = "done"]
    /\ UNCHANGED << ctx, pc, quotaInfo, frame, handlerRet, result, calls, canceled >>

\* The refund goroutine: model.PostConsumeTokenQuota(tokenId, -quotaInfo.preConsumedQuota).
RefundTask(r) ==
    /\ bg[r].refund = "launched"
    /\ tokenQuota' = PostConsumeTokenQuota(tokenQuota, ctx[r].token_id,
                                           -quotaInfo[r].preConsumedQuota)
    /\ events' = [events EXCEPT ![r] = Append(@,
            Event("refund", ctx[r].token_id, -quotaInfo[r].preConsumedQuota))]
    /\ bg' = [bg EXCEPT ![r].refund = "done"]
    /\ UNCHANGED << ctx, pc, quotaInfo, frame, handlerRet, result, calls, canceled >>

\* A settlement that drops the usage the handler returned.
SettleTask_dropsUsage(r) ==
    /\ bg[r].settle = "launched"
    /\ LET res == completedQuotaConsumption(quotaInfo[r], NilUsage, tokenQuota)
       IN /\ tokenQuota' = res.ledger
          /\ quotaInfo' = [quotaInfo EXCEPT ![r] = res.quotaInfo]
          /\ events' = [events EXCEPT ![r] = Append(@,
                 Event("reconcile", quotaInfo[r].tokenId, res.quotaDelta))]
    /\ bg' = [bg EXCEPT ![r].settle = "done"]
    /\ UNCHANGED << ctx, pc, frame, handlerRet, result, calls, canceled >>

\* The settlement goroutine: quotaInfo.completedQuotaConsumption(usage, tokenName, ctx).
SettleTask(r) ==
    /\ bg[r].settle = "launched"
    /\ LET res == completedQuotaConsumption(quotaInfo[r], handlerRet[r].usage, tokenQuota)
       IN /\ tokenQuota' = res.ledger
          /\ quotaInfo' = [quotaInfo EXCEPT ![r] = res.quotaInfo]
          /\ events' = [events EXCEPT ![r] = Append(@,
                 Event("reconcile", quotaInfo[r].tokenId, res.quotaDelta))]
    /\ bg' = [bg EXCEPT ![r].settle = "done"]
    /\ UNCHANGED << ctx, pc, frame, handlerRet, result, calls, canceled >>

\* The refund goroutine when the ledger call fails: the ledger is untouched
\* and the error is logged (common.LogError).
RefundTaskFails(r) ==
    /\ bg[r].refund = "launched"
    /\ events' = [events EXCEPT ![r] = Append(@, Step("log_error"))]
    /\ bg' = [bg EXCEPT ![r].refund = "failed"]
    /\ UNCHANGED << ctx, pc, quotaInfo, frame, handlerRet, result, tokenQuota, calls,
                    canceled >>

\* A failed settlement whose error replaces the value relayHelper returned.
SettleTaskFails_surfaces(r) ==
    /\ bg[r].settle = "launched"
    /\ events' = [events EXCEPT ![r] = Append(@, Step("log_error"))]
    /\ bg' = [bg EXCEPT ![r].settle = "failed"]
    /\ result' = [result EXCEPT ![r] =
            Returned(ErrorWrapper("consume_token_quota_failed", StatusInternalServerError))]
    /\ UNCHANGED << ctx, pc, quotaInfo, frame, handlerRet, tokenQuota, calls, canceled >>

\* The settlement goroutine when completedQuotaConsumption returns an error:
\* err is assigned and logged (common.LogError), nothing else.
SettleTaskFails(r) ==
    /\ bg[r].settle = "launched"
    /\ events' = [events EXCEPT ![r] = Append(@, Step("log_error"))]
    /\ bg' = [bg EXCEPT ![r].settle = "failed"]
    /\ UNCHANGED << ctx, pc, quotaInfo, frame, handlerRet, result, tokenQuota, calls,
                    canceled >>

Quiescent(r) ==
    /\ pc[r] \in {"absent", "done"}
    /\ bg[r].refund # "launched"
    /\ bg[r].settle # "launched"

\* The client disconnects (or the server finishes the request): the
\* request's context is canceled.
Cancel(r) ==
    /\ pc[r] # "absent"
    /\ ~Quiescent(r)
    /\ canceled[r] = "no"
    /\ canceled' = [canceled EXCEPT ![r] =
            IF pc[r] \in {"returned", "done"} THEN "after" ELSE "before"]
    /\ UNCHANGED << ctx, pc, quotaInfo, frame, handlerRet, result, bg, tokenQuota,
                    calls, events >>

\* The steps of the requests and of their goroutines.
RelaySteps ==
    \E r \in Reqs :
        \/ RelayDispatch(r)
        \/ Reserve(r)
        \/ InvokeProvider(r)
        \/ ProviderReturn(r)
        \/ RelayReturn(r)
        \/ RefundTask(r)
        \/ SettleTask(r)

Next == RelaySteps \/ \E r \in Reqs : Cancel(r)

\* Concurrent requests whose contexts may be canceled at any time.
Spec == Init /\ [][Next]_vars

\* Concurrent requests, none canceled: the interleavings of the requests'
\* steps on the ledger.  Cancel changes only canceled, which no step reads.
SpecQuota == Init /\ [][RelaySteps]_vars

\* One request over every context.
SpecDispatch == InitDispatch /\ [][Next]_vars

\* One request over every context, with a ledger whose calls may fail.
NextFault == Next \/ \E r \in Reqs : RefundTaskFails(r) \/ SettleTaskFails(r)

SpecFault == InitDispatch /\ [][NextFault]_vars

\* The Go scheduler runs every launched goroutine.
Fairness == \A r \in Reqs : WF_vars(RefundTask(r)) /\ WF_vars(SettleTask(r))

FairSpec == Spec /\ Fairness

FairDispatch == SpecDispatch /\ Fairness

(***************************************************************************)
(* Properties.                                                             *)
(***************************************************************************)
\* The positions of a request's events of one kind.
EventsOf(r, kind) == { i \in DOMAIN events[r] : events[r][i].ev = kind }

Happened(r, kind) == EventsOf(r, kind) # {}

\* The amount a request's successful reserve debited (0 when none did).
Reserved(r) ==
    IF Happened(r, "reserve")
    THEN events[r][CHOOSE i \in EventsOf(r, "reserve") : TRUE].amount
    ELSE 0

HandlerSucceeded(r) == pc[r] = "done" /\ Happened(r, "handler") /\ handlerRet[r].err = NoError

\* The requests that are alone on the ledger: every other request is absent.
Alone(r) == \A o \in Reqs \ {r} : pc[o] = "absent"

\* C1: a request that reserved R # 0 and whose provider call failed has,
\* once its refund ran, credited exactly R to the token it debited, so the
\* ledger is back at its value before the reserve, and its caller got the
\* provider's error.
C1_RefundRestoresBalance ==
    \A r \in Reqs :
        (Alone(r) /\ Reserved(r) # 0 /\ Happened(r, "provider_return")
            /\ handlerRet[r].err # NoError /\ bg[r].refund = "done")
        => /\ tokenQuota = InitialQuota
           /\ \E i \in EventsOf(r, "reserve"), j \in EventsOf(r, "refund") :
                 /\ i < j
                 /\ events[r][j].token = events[r][i].token
                 /\ events[r][j].amount = -events[r][i].amount
           /\ Cardinality(EventsOf(r, "refund")) = 1
           /\ result[r] = Returned(ErrorWrapper("upstream_error", StatusBadGateway))

C1_Witness ==
    \E r \in Reqs :
        /\ Alone(r) /\ Reserved(r) > 1 /\ Happened(r, "provider_return")
        /\ handlerRet[r].err # NoError /\ bg[r].refund = "done"
        /\ ctx[r].token_id # 1

\* The number of refunds and reconciles a request ran.
Corrections(r) ==
    Cardinality(EventsOf(r, "refund")) + Cardinality(EventsOf(r, "reconcile"))

\* C2 as stated: with a reservation exactly one of refund and reconcile
\* executes; with no reservation (preConsumedQuota 0 when the handler
\* returns) neither does.
C2_Original ==
    \A r \in Reqs :
        /\ Corrections(r) <= 1
        /\ (Quiescent(r) /\ Reserved(r) # 0) => Corrections(r) = 1
        /\ Reserved(r) = 0 => Corrections(r) = 0

\* C2 as amended: with a reservation exactly one of refund and reconcile
\* executes; with no reservation the refund never executes, and reconcile
\* executes exactly when the handler returned without error (a successful
\* request whose reservation is 0).
C2_ExactlyOneCorrection ==
    \A r \in Reqs :
        /\ Corrections(r) <= 1
        /\ (bg[r].refund # "none") => (bg[r].settle = "none")
        /\ (Quiescent(r) /\ Reserved(r) # 0) => Corrections(r) = 1
        /\ (Quiescent(r) /\ Reserved(r) # 0 /\ handlerRet[r].err # NoError)
              => Happened(r, "refund")
        /\ (Quiescent(r) /\ Reserved(r) # 0 /\ handlerRet[r].err = NoError)
              => Happened(r, "reconcile")
        /\ Reserved(r) = 0 => ~Happened(r, "refund") /\ bg[r].refund = "none"
        /\ (Reserved(r) = 0 /\ Happened(r, "reconcile")) => HandlerSucceeded(r)
        /\ (Quiescent(r) /\ Reserved(r) = 0 /\ HandlerSucceeded(r))
              => Happened(r, "reconcile")

C2_Witness ==
    \E r \in Reqs :
        /\ Quiescent(r) /\ Reserved(r) = 0 /\ HandlerSucceeded(r)
        /\ Happened(r, "reconcile")
        /\ ctx[r].relayMode = RelayModeAudioTranslation

\* The cost the spec charges for a settled request: the price of the usage
\* the provider reported, or of the pre-flight estimate when it reported none.
ChargedCost(r) ==
    Price(quotaInfo[r].modelName, ctx[r].group,
          IF handlerRet[r].usage.isNil THEN frame[r].promptTokens
          ELSE handlerRet[r].usage.TotalTokens)

\* C3: a request that reserved R and whose provider call succeeded has, once
\* reconcile ran, a net effect on its token's balance of exactly the true
\* cost: reconcile applied the delta (true cost - R) and zeroed
\* preConsumedQuota.
C3_ReconcileChargesTrueCost ==
    \A r \in Reqs :
        (Alone(r) /\ bg[r].settle = "done")
        => /\ tokenQuota = [InitialQuota EXCEPT ![ctx[r].token_id] = @ - ChargedCost(r)]
           /\ \E j \in EventsOf(r, "reconcile") :
                 /\ events[r][j].token = ctx[r].token_id
                 /\ events[r][j].amount = ChargedCost(r) - Reserved(r)
           /\ quotaInfo[r].preConsumedQuota = 0

C3_Witness ==
    \E r \in Reqs :
        /\ Alone(r) /\ bg[r].settle = "done"
        /\ Reserved(r) = 2
        /\ ~handlerRet[r].usage.isNil
        /\ ChargedCost(r) = 3
        /\ tokenQuota[ctx[r].token_id] = InitialQuota[ctx[r].token_id] - 3

\* The true costs of the requests of S that succeeded on token t, summed.
RECURSIVE SucceededCost(_, _)
SucceededCost(S, t) ==
    IF S = {} THEN 0
    ELSE LET r == CHOOSE x \in S : TRUE
         IN (IF ctx[r].token_id = t /\ HandlerSucceeded(r) THEN ChargedCost(r) ELSE 0)
            + SucceededCost(S \ {r}, t)

AllQuiescent == \A r \in Reqs : Quiescent(r)

\* C4: whatever the interleaving of the requests' reserve, provider, refund
\* and reconcile steps, once every request and goroutine has finished each
\* token's balance is its initial balance minus the true costs of the
\* requests that succeeded on it.
C4_ConcurrentBalance ==
    AllQuiescent =>
        \A t \in Tokens : tokenQuota[t] = InitialQuota[t] - SucceededCost(Reqs, t)

C4_Witness ==
    /\ AllQuiescent
    /\ \E a, b \in Reqs :
          /\ a # b
          /\ ctx[a].token_id = ctx[b].token_id
          /\ Reserved(a) # 0 /\ Reserved(b) # 0
          /\ bg[a].refund = "done"
          /\ bg[b].settle = "done" /\ ChargedCost(b) > Reserved(b)
          /\ tokenQuota[ctx[a].token_id] < InitialQuota[ctx[a].token_id] - Reserved(b)

\* What reserve answers for a request's QuotaInfo on the untouched ledger.
ReserveError(r) ==
    preQuotaConsumption(
        initQuotaInfo([NewQuotaInfo(ctx[r].token_id) EXCEPT
                          !.modelName = frame[r].request.Model,
                          !.promptTokens = frame[r].promptTokens], ctx[r].group),
        InitialQuota).err

\* C5: when reserve fails the ledger is unchanged, preConsumedQuota is 0,
\* the provider is never invoked, the caller gets the reserve error
\* unchanged, and neither a refund nor a credit is ever issued.
C5_ReserveFailure ==
    \A r \in Reqs :
        (Alone(r) /\ Happened(r, "reserve_failed"))
        => /\ tokenQuota = InitialQuota
           /\ quotaInfo[r].preConsumedQuota = 0
           /\ calls[r] = << >>
           /\ ~Happened(r, "provider_call")
           /\ handlerRet[r].err = ReserveError(r)
           /\ handlerRet[r].err # NoError
           /\ pc[r] = "done" => result[r] = Returned(ReserveError(r))
           /\ bg[r] = [refund |-> "none", settle |-> "none"]
           /\ ~Happened(r, "launch_refund") /\ ~Happened(r, "refund")

C5_Witness ==
    \E r \in Reqs :
        /\ Alone(r) /\ Happened(r, "reserve_failed") /\ pc[r] = "done"
        /\ result[r].err.code = "pre_consume_token_quota_failed"
        /\ frame[r].promptTokens > 0

\* Some event of kind a precedes position i of a request's events.
Before(r, a, i) == \E j \in EventsOf(r, a) : j < i

\* C6: in a request reserve completes before the provider is invoked, and
\* the provider call returns before a refund or reconcile is launched or
\* runs.
C6_Ordering ==
    \A r \in Reqs :
        /\ \A i \in EventsOf(r, "provider_call") : Before(r, "reserve", i)
        /\ \A i \in EventsOf(r, "provider_return") : Before(r, "provider_call", i)
        /\ \A i \in EventsOf(r, "launch_refund") \cup EventsOf(r, "launch_settle")
                    \cup EventsOf(r, "refund") \cup EventsOf(r, "reconcile") :
              Before(r, "provider_return", i)
        /\ (bg[r].refund # "none" \/ bg[r].settle # "none")
              => Happened(r, "provider_return") /\ pc[r] = "done"
        /\ pc[r] = "waiting" => bg[r] = [refund |-> "none", settle |-> "none"]

C6_Witness ==
    \E r \in Reqs :
        /\ Len(events[r]) >= 4
        /\ \E i \in EventsOf(r, "reserve"), j \in EventsOf(r, "provider_call"),
              k \in EventsOf(r, "provider_return"), l \in EventsOf(r, "refund") :
              i < j /\ j < k /\ k < l

\* The capability a relay mode needs of a provider (spec, section 6).
CapabilityOf(relayMode) ==
    CASE relayMode = "ChatCompletions" -> "ChatInterface"
      [] relayMode = "Completions" -> "CompletionInterface"
      [] relayMode = "Embeddings" -> "EmbeddingsInterface"
      [] relayMode = "Moderations" -> "ModerationInterface"
      [] relayMode = "AudioSpeech" -> "SpeechInterface"
      [] relayMode = "AudioTranscription" -> "TranscriptionsInterface"
      [] relayMode = "AudioTranslation" -> "TranslationInterface"
      [] relayMode = "ImagesGenerations" -> "ImageGenerationsInterface"
      [] relayMode = "ImagesEdits" -> "ImageEditsInterface"
      [] relayMode = "ImagesVariations" -> "ImageVariationsInterface"
      [] OTHER -> "none"

\* The request was dispatched on a provider handle that lacks the mode's
\* capability: SupportAPI is false, or its handler ran and the provider does
\* not implement the capability's interface.
LacksCapability(r) ==
    LET p == GetProvider(ctx[r].channel)
    IN /\ pc[r] \notin {"absent", "start"}
       /\ ~p.isNil
       /\ \/ ctx[r].relayMode \notin p.supportAPI
          \/ Happened(r, "handler") /\ CapabilityOf(ctx[r].relayMode) \notin p.interfaces

NoQuotaActivity(r) ==
    /\ ~Happened(r, "reserve") /\ ~Happened(r, "reserve_failed")
    /\ ~Happened(r, "provider_call")
    /\ calls[r] = << >>
    /\ quotaInfo[r].preConsumedQuota = 0
    /\ Alone(r) => tokenQuota = InitialQuota
    /\ bg[r] = [refund |-> "none", settle |-> "none"]

\* C7: a relay mode dispatched to a provider handle that lacks its
\* capability yields a not-implemented error and never reaches cost
\* estimation, QuotaState population, reserve or the provider call.
C7_CapabilityGating ==
    \A r \in Reqs :
        LacksCapability(r)
        => /\ ~Happened(r, "estimate") /\ ~Happened(r, "populate")
           /\ quotaInfo[r].modelName = "" /\ quotaInfo[r].promptTokens = 0
           /\ NoQuotaActivity(r)
           /\ pc[r] = "done" =>
                 /\ result[r].returned
                 /\ result[r].err.status = StatusNotImplemented
                 /\ result[r].err.code \in {"channel_not_support_api",
                                            "channel_not_implemented"}

C7_Witness ==
    \E r \in Reqs :
        /\ LacksCapability(r) /\ pc[r] = "done"
        /\ ctx[r].relayMode = RelayModeImagesVariations
        /\ ctx[r].channel = "noVariations"
        /\ result[r].err.code = "channel_not_implemented"

\* The request's handler ran, its body decoded, and the modality's required
\* field is missing.
MissingRequiredField(r) ==
    /\ Happened(r, "handler")
    /\ ctx[r].relayMode \in TextModes
    /\ ctx[r].body.decodable
    /\ ctx[r].body.n = 0

RequiredFieldRejected(r) ==
    /\ ~Happened(r, "estimate") /\ ~Happened(r, "populate")
    /\ quotaInfo[r] = NewQuotaInfo(ctx[r].token_id)
    /\ NoQuotaActivity(r)
    /\ pc[r] = "done" =>
          result[r] = Returned(ErrorWrapper("required_field_missing", StatusBadRequest))

\* C8 as stated: a request missing its modality's required field returns a
\* bad-request RequiredFieldMissing error, with no reservation, provider
\* call, refund or reconcile.
C8_Original ==
    \A r \in Reqs : MissingRequiredField(r) => RequiredFieldRejected(r)

\* C8 as amended: the same, for a request whose provider implements the
\* modality's capability interface (the handlers assert it before they
\* decode and validate the body).
C8_RequiredField ==
    \A r \in Reqs :
        (MissingRequiredField(r)
            /\ CapabilityOf(ctx[r].relayMode) \in GetProvider(ctx[r].channel).interfaces)
        => RequiredFieldRejected(r)

C8_Witness ==
    \E r \in Reqs :
        /\ MissingRequiredField(r) /\ pc[r] = "done"
        /\ ctx[r].relayMode = RelayModeAudioTranslation
        /\ result[r].err.code = "required_field_missing"

\* The value a request's mapping text gives a model name: the value of the
\* last pair with that key.
HasEntry(raw, model) == \E e \in parseModelMapping(raw).entries : e[1] = model
EntryValue(raw, model) ==
    (CHOOSE e \in parseModelMapping(raw).entries : e[1] = model)[2]

\* The model a request asks for, an omitted one replaced by its default.
RequestedModel(r) == ApplyDefaults(ctx[r].relayMode, ctx[r].body).Model

\* C9 as stated: with no entry for the requested model the provider is
\* invoked with the model unchanged and wasMapped false; with an entry it is
\* invoked with the entry's value and wasMapped true.
C9_Original ==
    \A r \in Reqs : \A i \in DOMAIN calls[r] :
        IF HasEntry(ctx[r].model_mapping, RequestedModel(r))
        THEN /\ calls[r][i].request.Model = EntryValue(ctx[r].model_mapping, RequestedModel(r))
             /\ calls[r][i].isModelMapped
        ELSE /\ calls[r][i].request.Model = RequestedModel(r)
             /\ ~calls[r][i].isModelMapped

\* C9 as amended: an entry whose value is the empty string counts as no entry.
C9_ModelMapping ==
    \A r \in Reqs : \A i \in DOMAIN calls[r] :
        IF /\ HasEntry(ctx[r].model_mapping, RequestedModel(r))
           /\ EntryValue(ctx[r].model_mapping, RequestedModel(r)) # ""
        THEN /\ calls[r][i].request.Model = EntryValue(ctx[r].model_mapping, RequestedModel(r))
             /\ calls[r][i].isModelMapped
             /\ quotaInfo[r].modelName = calls[r][i].request.Model
        ELSE /\ calls[r][i].request.Model = RequestedModel(r)
             /\ ~calls[r][i].isModelMapped
             /\ quotaInfo[r].modelName = RequestedModel(r)

C9_Witness ==
    \E r \in Reqs :
        /\ ctx[r].relayMode = RelayModeChatCompletions
        /\ ctx[r].body.Model = "gpt-4"
        /\ ctx[r].model_mapping = "{gpt-4:gpt-4-upstream}"
        /\ calls[r] # << >>
        /\ calls[r][1].request.Model = "gpt-4-upstream" /\ calls[r][1].isModelMapped

RefundApplied(r) ==
    /\ bg[r].refund = "done"
    /\ \E j \in EventsOf(r, "refund") :
          events[r][j] = Event("refund", ctx[r].token_id, -Reserved(r))

SettleApplied(r) ==
    /\ bg[r].settle = "done"
    /\ \E j \in EventsOf(r, "reconcile") :
          events[r][j] = Event("reconcile", ctx[r].token_id, ChargedCost(r) - Reserved(r))

\* C10: a refund or settlement that was launched runs to completion and
\* applies its ledger correction, whether or not (and whenever) the request's
\* context is canceled.
C10_CorrectionSurvivesCancel ==
    \A r \in Reqs :
        /\ (bg[r].refund = "launched") ~> RefundApplied(r)
        /\ (bg[r].settle = "launched") ~> SettleApplied(r)

C10_Witness ==
    \E r \in Reqs :
        /\ canceled[r] = "before" /\ RefundApplied(r) /\ Reserved(r) # 0
        /\ ctx[r].relayMode = RelayModeImagesEdits

GoroutineRan(r) ==
    bg[r].refund \in {"done", "failed"} \/ bg[r].settle \in {"done", "failed"}

\* C11: relayHelper returns the handler's error, or nil on success, before
\* its goroutine runs; the value returned never changes afterwards, whether
\* the refund or reconcile succeeds or fails (a failure is only logged).
C11_ResultFixedBeforeCorrection ==
    /\ [](\A r \in Reqs :
            /\ (result[r].returned /\ Happened(r, "handler"))
                  => result[r].err = handlerRet[r].err
            /\ (bg[r].refund # "none" \/ bg[r].settle # "none") => result[r].returned
            /\ (bg[r].refund = "failed" \/ bg[r].settle = "failed")
                  => Happened(r, "log_error")
            /\ ~result[r].returned => ~GoroutineRan(r))
    /\ [][\A r \in Reqs :
            /\ result[r].returned => result'[r] = result[r]
            /\ (~result[r].returned /\ result'[r].returned) =>
                  /\ ~GoroutineRan(r)'
                  /\ (Happened(r, "handler") /\ handlerRet[r].err = NoError)
                        => (result'[r].err = NoError /\ bg'[r].settle = "launched")]_vars

C11_Witness ==
    \E r \in Reqs :
        /\ bg[r].settle = "failed" /\ Happened(r, "log_error")
        /\ result[r] = Returned(NoError)
        /\ tokenQuota # InitialQuota

ZeroedBy(r) == Cardinality(EventsOf(r, "reconcile"))

\* C12: preConsumedQuota is never negative; it is non-zero only after the one
\* successful reserve of the request debited the ledger by that amount; it
\* goes from 0 to the reserved amount at most once, in the step of that
\* reserve, and from the reserved amount back to 0 at most once.
C12_ReservationField ==
    /\ [](\A r \in Reqs :
            /\ quotaInfo[r].preConsumedQuota >= 0
            /\ Cardinality(EventsOf(r, "reserve")) <= 1
            /\ quotaInfo[r].preConsumedQuota # 0 =>
                  /\ Reserved(r) = quotaInfo[r].preConsumedQuota
                  /\ ZeroedBy(r) = 0)
    /\ [][\A r \in Reqs :
            LET old == quotaInfo[r].preConsumedQuota
                new == quotaInfo'[r].preConsumedQuota
                t == ctx[r].token_id
            IN new # old =>
                 \/ /\ old = 0 /\ new > 0
                    /\ ~Happened(r, "reserve") /\ Reserved(r)' = new
                    /\ tokenQuota'[t] = tokenQuota[t] - new
                 \/ /\ old > 0 /\ new = 0
                    /\ Reserved(r) = old /\ ZeroedBy(r) = 0 /\ ZeroedBy(r)' = 1]_vars

C12_Witness ==
    \E r \in Reqs :
        /\ Reserved(r) > 0
        /\ quotaInfo[r].preConsumedQuota = 0
        /\ ZeroedBy(r) = 1

\* C13: once the refund goroutine has completed, the request's
\* preConsumedQuota is 0: the refund credits the reservation and zeroes the
\* field.
C13_RefundZeroesField ==
    \A r \in Reqs : bg[r].refund = "done" => quotaInfo[r].preConsumedQuota = 0

\* The refund credited the whole reservation back.
C13_Witness ==
    \E r \in Reqs :
        /\ bg[r].refund = "done"
        /\ Reserved(r) > 0
        /\ tokenQuota = InitialQuota

\* C14: completedQuotaConsumption runs exactly once for every request whose
\* handler returned without error, a reservation of 0 included, and is never
\* launched or run for a request whose handler returned an error or that
\* ended before a handler was dispatched.
C14_ReconcileExactlyOnce ==
    /\ [](\A r \in Reqs :
            /\ ZeroedBy(r) <= 1
            /\ Cardinality(EventsOf(r, "launch_settle")) <= 1
            /\ HandlerSucceeded(r) => bg[r].settle # "none"
            /\ Happened(r, "reconcile") => bg[r].settle = "done"
            /\ (bg[r].settle # "none" \/ Happened(r, "launch_settle")) =>
                  /\ Happened(r, "handler") /\ Happened(r, "provider_return")
                  /\ handlerRet[r].err = NoError)
    /\ \A r \in Reqs : HandlerSucceeded(r) ~> (ZeroedBy(r) = 1 /\ bg[r].settle = "done")

C14_Witness ==
    \E r \in Reqs :
        /\ ctx[r].relayMode \in {RelayModeAudioTranscription, RelayModeAudioTranslation}
        /\ HandlerSucceeded(r)
        /\ quotaInfo[r].promptTokens = 0 /\ Happened(r, "reserve") /\ Reserved(r) = 0
        /\ ZeroedBy(r) = 1 /\ bg[r].settle = "done"

HandlerNames ==
    {"handleChatCompletions", "handleCompletions", "handleEmbeddings",
     "handleModerations", "handleSpeech", "handleTranscriptions",
     "handleTranslations", "handleImageGenerations", "handleImageEdits"}

\* The handlers a request entered, in order.
HandlersEntered(r) ==
    SelectSeq([i \in DOMAIN events[r] |-> events[r][i].ev], LAMBDA e : e \in HandlerNames)

\* The handler of each relay mode (spec, section 4.5).
HandlerFor(relayMode) ==
    CASE relayMode = "ChatCompletions"    -> "handleChatCompletions"
      [] relayMode = "Completions"        -> "handleCompletions"
      [] relayMode = "Embeddings"         -> "handleEmbeddings"
      [] relayMode = "Moderations"        -> "handleModerations"
      [] relayMode = "AudioSpeech"        -> "handleSpeech"
      [] relayMode = "AudioTranscription" -> "handleTranscriptions"
      [] relayMode = "AudioTranslation"   -> "handleTranslations"
      [] relayMode = "ImagesGenerations"  -> "handleImageGenerations"
      [] relayMode = "ImagesEdits"        -> "handleImageEdits"
      [] relayMode = "ImagesVariations"   -> "handleImageEdits"

\* The request got past provider resolution, SupportAPI and the parse of
\* the model mapping.
PassedChecks(r) ==
    LET p == GetProvider(ctx[r].channel)
    IN /\ ~p.isNil
       /\ SupportAPI(p, ctx[r].relayMode)
       /\ ~parseModelMapping(ctx[r].model_mapping).err

\* Nothing touched the ledger and no goroutine was launched.
NothingCharged(r) ==
    /\ NoQuotaActivity(r)
    /\ \A k \in {"launch_refund", "launch_settle", "refund", "reconcile"} :
          ~Happened(r, k)

\* C15: a dispatched request that passed the three checks entered exactly
\* one handler, the one of its relay mode; with a relay mode outside the
\* enumerated ones it entered none, returned invalid_relay_mode (400), and
\* touched neither the ledger nor a goroutine; the same when the provider is
\* not found or the model mapping does not parse.
C15_ExactlyOneHandler ==
    \A r \in Reqs :
        pc[r] \notin {"absent", "start"} =>
            IF PassedChecks(r) /\ ctx[r].relayMode # "Unknown"
            THEN HandlersEntered(r) = << HandlerFor(ctx[r].relayMode) >>
            ELSE /\ HandlersEntered(r) = << >> /\ ~Happened(r, "handler")
                 /\ NothingCharged(r)
                 /\ result[r].returned /\ pc[r] = "done"
                 /\ (PassedChecks(r) =>
                        result[r].err = ErrorWrapper("invalid_relay_mode", 400))
                 /\ (GetProvider(ctx[r].channel).isNil =>
                        result[r].err = ErrorWrapper("channel_not_found", 501))
                 /\ result[r].err # NoError

C15_Witness ==
    \E r \in Reqs :
        /\ ctx[r].relayMode = "Unknown" /\ PassedChecks(r)
        /\ result[r] = Returned(ErrorWrapper("invalid_relay_mode", StatusBadRequest))
        /\ HandlersEntered(r) = << >>

\* The request's handler ran on a body that does not decode or that lacks
\* the modality's required field.
BadBody(r) ==
    /\ Happened(r, "handler") /\ pc[r] = "done"
    /\ ~ctx[r].body.decodable \/ MissingRequiredField(r)

\* The bad-request error the body earns: decoding comes before validation.
BadBodyError(r) ==
    IF ~ctx[r].body.decodable
    THEN ErrorWrapper("bind_request_body_failed", 400)
    ELSE ErrorWrapper("required_field_missing", 400)

\* The provider passed SupportAPI but does not implement the capability.
HollowFor(r) ==
    CapabilityOf(ctx[r].relayMode) \notin GetProvider(ctx[r].channel).interfaces

\* C16 as stated: a request with an undecodable body or a missing required
\* field, on a provider that passes SupportAPI but lacks the concrete
\* capability, gets the bad-request error, not the not-implemented one.
C16_Original ==
    \A r \in Reqs :
        (BadBody(r) /\ HollowFor(r)) => result[r] = Returned(BadBodyError(r))

\* C16 as amended: the handlers assert the concrete capability first; such a
\* request gets channel_not_implemented (501) and is neither estimated nor
\* charged, and the bad-request error is returned only when the provider
\* implements the capability.
C16_CapabilityBeforeDecode ==
    \A r \in Reqs :
        BadBody(r) =>
            /\ result[r] = Returned(IF HollowFor(r)
                                    THEN ErrorWrapper("channel_not_implemented", 501)
                                    ELSE BadBodyError(r))
            /\ ~Happened(r, "estimate") /\ ~Happened(r, "populate")
            /\ NothingCharged(r)

C16_Witness ==
    \E r \in Reqs :
        /\ BadBody(r) /\ HollowFor(r)
        /\ MissingRequiredField(r)
        /\ ctx[r].channel = "hollow"
        /\ result[r] = Returned(ErrorWrapper("channel_not_implemented", StatusNotImplemented))

\* The model a handler fills in when the body names none.
DefaultModel(relayMode) ==
    CASE relayMode = "Moderations" -> "text-moderation-latest"
      [] relayMode \in {"ImagesGenerations", "ImagesEdits", "ImagesVariations"} -> "dall-e-2"
      [] OTHER -> ""

\* The request was dispatched to its handler on a provider that implements
\* the capability, with a body that decodes, has its required field and
\* names no model.
OmitsModel(r) ==
    /\ pc[r] \notin {"absent", "start"}
    /\ PassedChecks(r) /\ ~HollowFor(r)
    /\ ctx[r].body.decodable /\ ~MissingRequiredField(r)
    /\ ctx[r].body.Model = ""

\* The mapping holds a non-empty value for the model.
Maps(r, model) ==
    /\ HasEntry(ctx[r].model_mapping, model)
    /\ EntryValue(ctx[r].model_mapping, model) # ""

\* The request was estimated, populated and reserved under the model, and
\* every provider call carries it with the flag.
UsesModel(r, model, flag) ==
    /\ frame[r].request.Model = model /\ frame[r].isModelMapped = flag
    /\ quotaInfo[r].modelName = model
    /\ Happened(r, "reserve") =>
          Reserved(r) = Price(model, ctx[r].group, frame[r].promptTokens)
    /\ \A i \in DOMAIN calls[r] :
          /\ calls[r][i].request = frame[r].request
          /\ calls[r][i].isModelMapped = flag

\* C17: defaults come before the mapping and the estimate.  An image
\* generation that omits model, size and quality is estimated, reserved and
\* sent with dall-e-2, 1024x1024 and standard; a moderation that omits the
\* model uses text-moderation-latest; and a mapping entry keyed on the default
\* name is applied to them, with the mapped flag set.
C17_DefaultsBeforeMapping ==
    \A r \in Reqs :
        (OmitsModel(r) /\ ctx[r].relayMode \in {"Moderations", "ImagesGenerations"}) =>
            LET d == DefaultModel(ctx[r].relayMode)
            IN /\ Happened(r, "populate") =>
                     IF Maps(r, d)
                     THEN UsesModel(r, EntryValue(ctx[r].model_mapping, d), TRUE)
                     ELSE UsesModel(r, d, FALSE)
               /\ ctx[r].relayMode = "Moderations" => Happened(r, "populate")
               /\ (ctx[r].relayMode = "ImagesGenerations"
                     /\ ctx[r].body.Size = "" /\ ctx[r].body.Quality = "") =>
                     /\ Happened(r, "estimate") /\ Happened(r, "populate")
                     /\ frame[r].request.Size = "1024x1024"
                     /\ frame[r].request.Quality = "standard"
                     /\ frame[r].promptTokens =
                           CountTokenImage([Size |-> "1024x1024",
                                            Quality |-> "standard"]).tokens
                     /\ quotaInfo[r].promptTokens = frame[r].promptTokens

C17_Witness ==
    \E r \in Reqs :
        /\ OmitsModel(r) /\ ctx[r].relayMode = RelayModeImagesGenerations
        /\ ctx[r].body.Size = "" /\ ctx[r].body.Quality = ""
        /\ ctx[r].model_mapping = "{defaults}"
        /\ Reserved(r) > 0
        /\ calls[r] # << >>
        /\ calls[r][1].request.Model = "dall-e-3" /\ calls[r][1].isModelMapped
        /\ calls[r][1].request.Size = "1024x1024"
        /\ calls[r][1].request.Quality = "standard"

\* An image handler decoded the body and the estimator rejects its size
\* (the default size when the body gives none).
EstimatorFails(r) ==
    /\ pc[r] \notin {"absent", "start"}
    /\ PassedChecks(r) /\ ~HollowFor(r)
    /\ ctx[r].relayMode \in {"ImagesGenerations", "ImagesEdits", "ImagesVariations"}
    /\ ctx[r].body.decodable
    /\ CountTokenImage([Size |-> IF ctx[r].body.Size = "" THEN "1024x1024"
                                 ELSE ctx[r].body.Size,
                        Quality |-> ctx[r].body.Quality]).err

\* C18: when the image estimator fails the handler returns
\* count_token_image_failed (500); modelName, promptTokens and
\* preConsumedQuota keep their zero values; no reserve, no provider call, no
\* refund and no reconcile happen.
C18_EstimatorFailure ==
    \A r \in Reqs :
        EstimatorFails(r) =>
            /\ handlerRet[r].err = ErrorWrapper("count_token_image_failed", 500)
            /\ handlerRet[r].usage = NilUsage
            /\ pc[r] = "done" => result[r] = Returned(handlerRet[r].err)
            /\ quotaInfo[r].modelName = "" /\ quotaInfo[r].promptTokens = 0
            /\ quotaInfo[r].preConsumedQuota = 0
            /\ ~Happened(r, "populate")
            /\ NothingCharged(r)

C18_Witness ==
    \E r \in Reqs :
        /\ EstimatorFails(r) /\ pc[r] = "done"
        /\ ctx[r].relayMode = RelayModeImagesVariations
        /\ ctx[r].body.Size = "bogus"
        /\ result[r].err.code = "count_token_image_failed"
        /\ Happened(r, "estimate")

\* The provider method of each relay mode (spec, section 4.5).
ActionFor(relayMode) ==
    CASE relayMode = "ChatCompletions"    -> "ChatAction"
      [] relayMode = "Completions"        -> "CompleteAction"
      [] relayMode = "Embeddings"         -> "EmbeddingsAction"
      [] relayMode = "Moderations"        -> "ModerationAction"
      [] relayMode = "AudioSpeech"        -> "SpeechAction"
      [] relayMode = "AudioTranscription" -> "TranscriptionsAction"
      [] relayMode = "AudioTranslation"   -> "TranslationAction"
      [] relayMode = "ImagesGenerations"  -> "ImageGenerationsAction"
      [] relayMode = "ImagesEdits"        -> "ImageEditsAction"
      [] relayMode = "ImagesVariations"   -> "ImageVariationsAction"

\* C19: a request whose reserve succeeded invokes one provider action, the
\* one of its relay mode, once and never again; the call carries the
\* promptTokens and the model that QuotaInfo held for the reserve, and the
\* handler returns the (usage, error) the provider returned.
C19_OneProviderCall ==
    \A r \in Reqs :
        /\ Len(calls[r]) <= 1
        /\ Cardinality(EventsOf(r, "provider_call")) = Len(calls[r])
        /\ calls[r] # << >> => Happened(r, "reserve")
        /\ (Happened(r, "reserve") /\ pc[r] # "provider") =>
              /\ Len(calls[r]) = 1
              /\ calls[r][1].action = ActionFor(ctx[r].relayMode)
              /\ calls[r][1].promptTokens = quotaInfo[r].promptTokens
              /\ calls[r][1].request.Model = quotaInfo[r].modelName
              /\ Reserved(r) = Price(calls[r][1].request.Model, ctx[r].group,
                                     calls[r][1].promptTokens)
              /\ calls[r][1].returned <=> Happened(r, "provider_return")
              /\ calls[r][1].returned =>
                    /\ handlerRet[r] = calls[r][1].ret
                    /\ pc[r] = "done" => result[r] = Returned(calls[r][1].ret.err)

C19_Witness ==
    \E r \in Reqs :
        /\ ctx[r].relayMode = RelayModeImagesVariations
        /\ Happened(r, "reserve") /\ pc[r] = "done"
        /\ Len(calls[r]) = 1 /\ calls[r][1].action = "ImageVariationsAction"
        /\ calls[r][1].returned /\ calls[r][1].ret.err # NoError
        /\ handlerRet[r] = calls[r][1].ret

====
